---- MODULE Spec2Model ----
(***************************************************************************)
(* Risk & volatility analytics of the stock-analyst application: the MCP   *)
(* database server (mcp_servers/db_server.py) with its one-hour analysis   *)
(* cache and one-day price freshness gate, and the RiskAgent               *)
(* (agents/risk_agent.py) that calls it over HTTP and falls back to a      *)
(* direct calculation.                                                     *)
(*                                                                         *)
(* Time is counted in ticks of half an hour, so that "exactly one hour     *)
(* old" and "a little more than one hour old" are different instants.      *)
(* Calendar dates are day numbers, date(t) = t \div TicksPerDay.           *)
(***************************************************************************)
EXTENDS Integers, Sequences, FiniteSets, TLC

VARIABLES
    db,                 \* self.db as left by __init__: "none" | "ok" | "raises"
    now,                \* the wall clock, in ticks
    ticks,              \* number of clock advances so far (bounds the run)
    calls,              \* number of requests served so far (bounds the run)
    historical_prices,  \* collection historical_prices: a set of bar documents
    volatility_metrics, \* collection volatility_metrics: a set of documents
    pc,                 \* per caller: position in RiskAgent.analyze_volatility
    req,                \* per caller: the (symbol, period) it asked for
    out,                \* per caller: what analyze_volatility returned, and
                        \* the series its direct calculation worked on
    burst,              \* per caller: callers whose request for the same key was
                        \* pending at the server together with this caller's
    last,               \* what the most recent server handler did (observation)
    correlation_matrix, \* collection correlation_matrix: a set of documents
    classified,         \* the inputs given to the two risk classifiers and
                        \* the levels they returned
    portfolio,          \* one analyze_portfolio_risk call: its arguments, what
                        \* its collaborators gave it, and what it returned
    beta_run,           \* one _calculate_beta call: its argument, what the
                        \* index fetch gave it, what it returned and the
                        \* beta entry of the risk record
    stats_run           \* one return series and the drawdown and
                        \* value-at-risk statistics computed from it

vars == <<db, now, ticks, calls, historical_prices, volatility_metrics,
          pc, req, out, burst, last, correlation_matrix, classified,
          portfolio, beta_run, stats_run>>

\* The collections and records that the risk-analysis handlers never touch.
otherVars == <<correlation_matrix, classified, portfolio, beta_run, stats_run>>

(***************************************************************************)
(* Bounds of the model.                                                    *)
(***************************************************************************)
MaxTicks == 3           \* clock advances in one run
MaxCalls == 2           \* requests served in one run
MaxRecords == 2         \* documents in volatility_metrics

(***************************************************************************)
(* Calendar and program constants.                                         *)
(***************************************************************************)
TicksPerHour == 2       \* resolution of the clock
TicksPerDay == 24 * TicksPerHour
StartDay == 20          \* the day the run starts on (keeps bar dates positive)

CacheHours == 1         \* timedelta(hours=1) in _get_recent_analysis
FreshDays == 1          \* days_old <= 1 in _get_historical_data
MinReturnsServer == 2   \* len(returns) < 2 in the server's _calculate_risk_metrics
MinReturnsAgent == 10   \* len(daily_returns) < 10 in the agent's _calculate_risk_metrics

Symbols == {"TCS", "INFY"}
Periods == {"5d", "1mo"}
Callers == {"c1", "c2"}

\* period_map of _get_data_from_db; an unknown period counts 30 days.
PeriodDays(period) ==
    CASE period = "1d" -> 1
      [] period = "5d" -> 5
      [] period = "1mo" -> 30
      [] period = "3mo" -> 90
      [] period = "6mo" -> 180
      [] period = "1y" -> 365
      [] period = "2y" -> 730
      [] OTHER -> 30

None == [none |-> TRUE]          \* Python's None
NoReq == [symbol |-> "", period |-> ""]

Today == now \div TicksPerDay

(***************************************************************************)
(* The quote source (yfinance).  Its closes are a fixed function of the    *)
(* symbol and the day: INFY trades flat, TCS moves.  The number of bars a  *)
(* call returns is the call's input.                                       *)
(***************************************************************************)
QuoteClose(symbol, date) ==
    IF symbol = "INFY" THEN 100 ELSE 100 + 3 * (date % 4)

\* The numbers of bars a fetch returns: 0 (the call fails or the frame is
\* empty), and lengths on both sides of each path's data threshold.  A
\* period of d days holds at most d bars.
ShortSeries == {MinReturnsServer, MinReturnsServer + 1}
LongSeries == {MinReturnsAgent - 1, MinReturnsAgent, MinReturnsAgent + 1}

FetchLens(period) ==
    {n \in {0} \cup ShortSeries \cup {MinReturnsAgent - 1} :
        n <= PeriodDays(period)}

AgentFetchLens(period) ==
    {n \in {0} \cup LongSeries : n <= PeriodDays(period)}

\* ticker.history(period): n daily bars ending today, oldest first.
History(symbol, n) ==
    [i \in 1..n |-> [date |-> Today - n + i,
                     close |-> QuoteClose(symbol, Today - n + i)]]

(***************************************************************************)
(* Sequences of bars.                                                      *)
(***************************************************************************)
RECURSIVE SortByDate(_)
SortByDate(S) ==
    IF S = {} THEN <<>>
    ELSE LET b == CHOOSE x \in S : \A y \in S : x.date <= y.date
         IN <<b>> \o SortByDate(S \ {b})

Closes(df) == [i \in 1..Len(df) |-> df[i].close]

SeqMax(s) == CHOOSE x \in {s[i] : i \in 1..Len(s)} :
                 \A i \in 1..Len(s) : s[i] <= x
SeqMin(s) == CHOOSE x \in {s[i] : i \in 1..Len(s)} :
                 \A i \in 1..Len(s) : x <= s[i]

\* df['Close'].pct_change().dropna(): one return per bar after the first
\* (closes are positive, so no return is NaN).
NumReturns(df) == IF Len(df) = 0 THEN 0 ELSE Len(df) - 1

(***************************************************************************)
(* Documents.  {**a, **b}: the keys of b win.                              *)
(***************************************************************************)
Merge(a, b) ==
    [f \in (DOMAIN a) \cup (DOMAIN b) |-> IF f \in DOMAIN b THEN b[f] ELSE a[f]]

\* result.pop('_id', None)
StripId(doc) == [f \in (DOMAIN doc) \ {"_id"} |-> doc[f]]

IsNone(v) == v = None

(***************************************************************************)
(* Store operations that can fail on their own while the handle is usable  *)
(* (the connection drops): each is an input of the handler.                *)
(***************************************************************************)
NoFail == [cache_read |-> FALSE, price_read |-> FALSE,
           price_write |-> FALSE, record_write |-> FALSE]

AllFail == [cache_read |-> TRUE, price_read |-> TRUE,
            price_write |-> TRUE, record_write |-> TRUE]

\* Nothing fails, one operation fails, or the store is down for the whole
\* request.
Fails ==
    IF db = "ok"
    THEN {NoFail, AllFail} \cup
         {[NoFail EXCEPT ![op] = TRUE] : op \in DOMAIN NoFail}
    ELSE {NoFail}

(***************************************************************************)
(* `not self.db`.  self.db is None when no URI is configured; otherwise it *)
(* is a pymongo Database.  pymongo 4 (setup_mongodb.py asks for            *)
(* pymongo>=4.6.0) raises NotImplementedError when a Database is tested    *)
(* for truth; a handle with a truth value (pymongo 3, a stand-in store)    *)
(* passes the test.  Which one the installation has is fixed at            *)
(* construction.                                                           *)
(***************************************************************************)
DbMissing == db = "none"
DbTruthTestRaises == db = "raises"

(***************************************************************************)
(* MCPDatabaseServer._get_recent_analysis                                  *)
(***************************************************************************)
OneHourAgo == now - CacheHours * TicksPerHour

\* Mutant: the filter without its age condition.
IsRecentDoc_AnyAge(doc, symbol, period) ==
    /\ doc.symbol = symbol
    /\ doc.period = period

\* The filter of find_one: this key, timestamp >= one_hour_ago.
IsRecentDoc(doc, symbol, period) ==
    /\ doc.symbol = symbol
    /\ doc.period = period
    /\ doc.timestamp >= OneHourAgo

RecentDocs(symbol, period) ==
    {doc \in volatility_metrics : IsRecentDoc(doc, symbol, period)}

\* sort=[("timestamp", -1)]: a newest one; ties are broken by the store.
NewestDocs(docs) ==
    {doc \in docs : \A other \in docs : other.timestamp <= doc.timestamp}

\* The values the call can return when `not self.db` does not raise.
GetRecentAnalysis(symbol, period, fails) ==
    IF DbMissing THEN {None}
    ELSE IF fails.cache_read THEN {None}
    ELSE IF RecentDocs(symbol, period) = {} THEN {None}
    ELSE {StripId(doc) : doc \in NewestDocs(RecentDocs(symbol, period))}

(***************************************************************************)
(* MCPDatabaseServer._get_data_from_db: the stored bars of the symbol in   *)
(* the lookback window, oldest first; <<>> stands for None.                *)
(***************************************************************************)
NoData == <<>>

WindowStart(period) == now - PeriodDays(period) * TicksPerDay

InWindow(bar, symbol, period) ==
    /\ bar.symbol = symbol
    /\ bar.date * TicksPerDay >= WindowStart(period)

BarOf(doc) == [date |-> doc.date, close |-> doc.close_price]

GetDataFromDb(symbol, period, fails) ==
    IF DbMissing THEN NoData
    ELSE IF fails.price_read THEN NoData
    ELSE SortByDate({BarOf(doc) : doc \in
                        {d \in historical_prices : InWindow(d, symbol, period)}})

(***************************************************************************)
(* MCPDatabaseServer._fetch_data_from_api: n bars, or None when the call   *)
(* fails or the frame is empty.                                            *)
(***************************************************************************)
FetchDataFromApi(symbol, n) == IF n = 0 THEN NoData ELSE History(symbol, n)

(***************************************************************************)
(* MCPDatabaseServer._store_price_data_bulk: insert_many(ordered=False)    *)
(* under the unique index (symbol, date): every bar whose (symbol, date)   *)
(* is not stored yet is inserted, the rest are rejected and the error is   *)
(* swallowed.  The result is the set of documents inserted.                *)
(***************************************************************************)
PriceDocAt(symbol, bar, t) ==
    [symbol |-> symbol, date |-> bar.date, close_price |-> bar.close,
     timestamp |-> t]

PriceDoc(symbol, bar) == PriceDocAt(symbol, bar, now)

HasBar(symbol, date) ==
    \E d \in historical_prices : d.symbol = symbol /\ d.date = date

\* Mutant: the collection has no unique index, every bar is inserted.
StorePriceDataBulk_NoUniqueIndex(symbol, df, fails) ==
    IF DbMissing THEN {}
    ELSE IF fails.price_write THEN {}
    ELSE {PriceDoc(symbol, df[i]) : i \in 1..Len(df)}

StorePriceDataBulk(symbol, df, fails) ==
    IF DbMissing THEN {}
    ELSE IF fails.price_write THEN {}
    ELSE {PriceDoc(symbol, df[i]) : i \in {j \in 1..Len(df) : ~HasBar(symbol, df[j].date)}}

(***************************************************************************)
(* MCPDatabaseServer._get_historical_data.  The result records what the    *)
(* call did: the series read from the store, whether the quote source was  *)
(* called and what it gave, the documents appended, the series returned,   *)
(* and whether the body ended in its except branch.                        *)
(***************************************************************************)
DaysOld(df) == Today - df[Len(df)].date

\* Mutant: only bars of today count as recent.
IsRecentEnough_TodayOnly(df) == DaysOld(df) < FreshDays

IsRecentEnough(df) == DaysOld(df) <= FreshDays

GetHistoricalData(symbol, period, n, fails) ==
    IF DbTruthTestRaises
    THEN \* _get_data_from_db raises at `if not self.db`; caught here
         [invoked |-> TRUE, stored |-> NoData, called |-> FALSE,
          fetched |-> NoData, appended |-> {}, df |-> NoData, caught |-> TRUE]
    ELSE LET stored == GetDataFromDb(symbol, period, fails)
             fresh == FetchDataFromApi(symbol, n)
         IN IF stored # NoData /\ IsRecentEnough(stored)
            THEN [invoked |-> TRUE, stored |-> stored, called |-> FALSE,
                  fetched |-> NoData, appended |-> {}, df |-> stored,
                  caught |-> FALSE]
            ELSE IF fresh # NoData
            THEN [invoked |-> TRUE, stored |-> stored, called |-> TRUE,
                  fetched |-> fresh,
                  appended |-> StorePriceDataBulk(symbol, fresh, fails),
                  df |-> fresh, caught |-> FALSE]
            ELSE [invoked |-> TRUE, stored |-> stored, called |-> TRUE,
                  fetched |-> NoData, appended |-> {}, df |-> stored,
                  caught |-> FALSE]

NotInvoked ==
    [invoked |-> FALSE, stored |-> NoData, called |-> FALSE,
     fetched |-> NoData, appended |-> {}, df |-> NoData, caught |-> FALSE]

(***************************************************************************)
(* MCPDatabaseServer._calculate_risk_metrics.  The float statistics        *)
(* (volatility, annualized_return, sharpe_ratio, var_95, var_99,           *)
(* max_drawdown, beta, risk_level) are functions of the closes alone; the  *)
(* record carries the closes they are computed from in their place.        *)
(***************************************************************************)
InsufficientDataError == [error |-> "Insufficient data for risk calculation"]

\* A float that is exactly zero; the other floats are carried as the data
\* they are computed from.
Zero == [float |-> 0]

\* returns.std() is zero: all the returns close[i+1] / close[i] - 1 are equal.
ZeroStd(closes) ==
    \A i \in 2..(Len(closes) - 1) :
        closes[i + 1] * closes[i - 1] = closes[i] * closes[i]

\* (mean_return - risk_free_rate) / volatility if volatility > 0 else 0
SharpeRatio(closes) ==
    IF ZeroStd(closes) THEN Zero ELSE [sharpe_of |-> closes]

CalculateRiskMetrics(df) ==
    IF NumReturns(df) < MinReturnsServer
    THEN InsufficientDataError
    ELSE [statistics_of |-> Closes(df),
          sharpe_ratio |-> SharpeRatio(Closes(df)),
          data_points |-> NumReturns(df),
          last_price |-> df[Len(df)].close,
          price_change |-> df[Len(df)].close - df[Len(df) - 1].close]

IsErrorDict(v) == "error" \in DOMAIN v

IsMetrics(v) == "statistics_of" \in DOMAIN v

(***************************************************************************)
(* MCPDatabaseServer._store_risk_analysis: the documents insert_one adds.  *)
(***************************************************************************)
NextId == Cardinality(volatility_metrics) + 1

\* Mutant: the document is filed under the default period.
RiskDoc_DefaultPeriod(symbol, period, metrics) ==
    Merge([_id |-> NextId, symbol |-> symbol, period |-> "1mo",
           timestamp |-> now], metrics)

RiskDoc(symbol, period, metrics) ==
    Merge([_id |-> NextId, symbol |-> symbol, period |-> period,
           timestamp |-> now], metrics)

StoreRiskAnalysis(symbol, period, metrics, fails) ==
    IF DbMissing THEN {}
    ELSE IF fails.record_write THEN {}
    ELSE {RiskDoc(symbol, period, metrics)}

(***************************************************************************)
(* MCPDatabaseServer.analyze_risk: the outcomes of one call.  ret is the   *)
(* value returned; hit, computed and inserted say whether a cached record  *)
(* was served, whether _calculate_risk_metrics ran and which documents     *)
(* were written; gate is what _get_historical_data did.                    *)
(***************************************************************************)
AnalyzeRiskMiss(symbol, period, n, fails) ==
    LET gate == GetHistoricalData(symbol, period, n, fails)
        metrics == CalculateRiskMetrics(gate.df)
    IN IF gate.df = NoData
       THEN [ret |-> None, hit |-> FALSE, gate |-> gate, computed |-> FALSE,
             inserted |-> {}, caught |-> FALSE]
       ELSE [ret |-> metrics, hit |-> FALSE, gate |-> gate, computed |-> TRUE,
             inserted |-> StoreRiskAnalysis(symbol, period, metrics, fails),
             caught |-> FALSE]

AnalyzeRisk(symbol, period, n, fails) ==
    IF DbTruthTestRaises
    THEN \* _get_recent_analysis raises at `if not self.db`; caught here
         {[ret |-> None, hit |-> FALSE, gate |-> NotInvoked,
           computed |-> FALSE, inserted |-> {}, caught |-> TRUE]}
    ELSE {IF recent # None
          THEN [ret |-> recent, hit |-> TRUE, gate |-> NotInvoked,
                computed |-> FALSE, inserted |-> {}, caught |-> FALSE]
          ELSE AnalyzeRiskMiss(symbol, period, n, fails)
            : recent \in GetRecentAnalysis(symbol, period, fails)}

(***************************************************************************)
(* MCPDatabaseServer.get_historical_prices                                 *)
(***************************************************************************)
BarDict(bar) == [date |-> bar.date, close |-> bar.close]

GetHistoricalPrices(symbol, period, n, fails) ==
    LET gate == GetHistoricalData(symbol, period, n, fails)
    IN [ret |-> IF gate.df = NoData
                THEN [error |-> "No data available"]
                ELSE [symbol |-> symbol, period |-> period,
                      data |-> [i \in 1..Len(gate.df) |-> BarDict(gate.df[i])]],
        hit |-> FALSE, gate |-> gate, computed |-> FALSE, inserted |-> {},
        caught |-> FALSE]

(***************************************************************************)
(* MCPDatabaseServer.handle_request and MCPHandler.do_POST.                *)
(***************************************************************************)
\* `if result:` a dict is true unless it is empty; None is false.
Truthy(v) == v # None /\ DOMAIN v # {}

InternalError == [error |-> [code |-> -32603]]

HandleAnalyzeRisk(ret) ==
    IF Truthy(ret) THEN [result |-> ret] ELSE InternalError

HandleGetHistoricalPrices(ret) == [result |-> ret]

\* json.dumps raises TypeError on a datetime: the stored document's
\* timestamp, which a cached record still carries.
JsonSerializable(response) ==
    "result" \in DOMAIN response => "timestamp" \notin DOMAIN response.result

\* What the client sees: the response with status 200, or send_error(500).
DoPost(response) ==
    IF JsonSerializable(response)
    THEN [status |-> 200, body |-> response]
    ELSE [status |-> 500, body |-> None]

(***************************************************************************)
(* RiskAgent: the direct calculation.                                      *)
(***************************************************************************)
EmptyDict == [f \in {} |-> TRUE]

\* RiskAgent._get_historical_data: the .NS then the .BO ticker; None
\* when both are empty or the call raises.
AgentGetHistoricalData(symbol, n) ==
    IF n = 0 THEN NoData ELSE History(symbol, n)

\* price_position divides by (price_52w_high - price_52w_low) without a
\* guard: a zero-width range raises ZeroDivisionError.
ZeroWidthRange(closes) == SeqMax(closes) = SeqMin(closes)

\* excess_returns.mean() / excess_returns.std()
\*     if excess_returns.std() != 0 else 0
AgentSharpeRatio(closes) ==
    IF ZeroStd(closes) THEN Zero ELSE [sharpe_of |-> closes]

\* (current_price - price_52w_low) / (price_52w_high - price_52w_low)
PricePosition(closes) ==
    [numerator |-> closes[Len(closes)] - SeqMin(closes),
     denominator |-> SeqMax(closes) - SeqMin(closes)]

\* RiskAgent._compute_risk_metrics: {} from its except branch.
ComputeRiskMetrics(closes) ==
    IF ZeroWidthRange(closes)
    THEN EmptyDict
    ELSE [statistics_of |-> closes,
          sharpe_ratio |-> AgentSharpeRatio(closes),
          price_position |-> PricePosition(closes),
          current_price |-> closes[Len(closes)],
          price_52w_high |-> SeqMax(closes),
          price_52w_low |-> SeqMin(closes)]

\* RiskAgent._calculate_risk_metrics
AgentCalculateRiskMetrics(symbol, period, n) ==
    LET hist == AgentGetHistoricalData(symbol, n)
    IN IF hist = NoData THEN None
       ELSE IF NumReturns(hist) < MinReturnsAgent THEN None
       ELSE Merge(ComputeRiskMetrics(Closes(hist)),
                  [symbol |-> symbol, period |-> period,
                   data_points |-> NumReturns(hist),
                   start_date |-> hist[1].date,
                   end_date |-> hist[Len(hist)].date,
                   analysis_timestamp |-> now])

\* RiskAgent._get_risk_from_mcp, given what came back over HTTP.
GetRiskFromMcp_ErrorAsResult(wire) ==
    IF wire.status = 200
    THEN IF "result" \in DOMAIN wire.body THEN wire.body.result
         ELSE wire.body.error
    ELSE None

GetRiskFromMcp(wire) ==
    IF wire.status = 200 /\ "result" \in DOMAIN wire.body
    THEN wire.body.result
    ELSE None

(***************************************************************************)
(* MCPDatabaseServer.store_correlation_matrix.  A key of the correlations  *)
(* dictionary is the sequence of the names it joins with '_': <<a, b>> is  *)
(* "a_b", which split('_', 1) takes apart into symbol1 = a, symbol2 = b;   *)
(* <<a>> has no underscore and is skipped.  The dictionary is the sequence *)
(* of its items in insertion order, coefficients in hundredths.            *)
(***************************************************************************)
Coefficients == {30, 80}

PairKeys == {<<"TCS", "INFY">>, <<"INFY", "TCS">>, <<"TCS">>}

Items == [key : PairKeys, correlation : Coefficients]

Correlations ==
    {<<a>> : a \in Items} \cup
    {c \in Items \X Items : c[1].key # c[2].key}

HasUnderscore(key) == Len(key) >= 2

CorrelationDoc(item, timestamp) ==
    [symbol1 |-> item.key[1], symbol2 |-> item.key[2],
     correlation |-> item.correlation, timestamp |-> timestamp]

\* update_one({"symbol1", "symbol2"}, {"$set": correlation_doc}, upsert=True)
UpdateOneUpsert(coll, doc) ==
    {d \in coll : ~(d.symbol1 = doc.symbol1 /\ d.symbol2 = doc.symbol2)}
        \cup {doc}

RECURSIVE UpsertItems(_, _, _, _)
UpsertItems(coll, correlations, upto, timestamp) ==
    IF upto = 0 THEN coll
    ELSE LET before == UpsertItems(coll, correlations, upto - 1, timestamp)
             item == correlations[upto]
         IN IF HasUnderscore(item.key)
            THEN UpdateOneUpsert(before, CorrelationDoc(item, timestamp))
            ELSE before

\* update_one may raise at any item that reaches it; Len + 1: none raises.
FailPoints(correlations) ==
    IF db = "ok"
    THEN {i \in 1..Len(correlations) : HasUnderscore(correlations[i].key)}
            \cup {Len(correlations) + 1}
    ELSE {Len(correlations) + 1}

\* ret is the value returned; raised says the call raised instead
\* (`if not self.db` is outside the try).
StoreCorrelationMatrix(correlations, failAt) ==
    IF DbTruthTestRaises
    THEN [ret |-> None, raised |-> TRUE, coll |-> correlation_matrix]
    ELSE IF DbMissing
    THEN [ret |-> FALSE, raised |-> FALSE, coll |-> correlation_matrix]
    ELSE [ret |-> failAt > Len(correlations), raised |-> FALSE,
          coll |-> UpsertItems(correlation_matrix, correlations,
                               failAt - 1, now)]

HandleStoreCorrelation(o) ==
    IF o.raised THEN InternalError ELSE [result |-> [success |-> o.ret]]

(***************************************************************************)
(* The risk classifiers.  Volatility, max drawdown and VaR-95 are floats   *)
(* in the code; here they are counted in hundredths (0.40 is 40, -0.05 is  *)
(* -5), and the values are those at and next to every threshold.           *)
(***************************************************************************)
Volatilities == {0, 15, 16, 20, 21, 25, 26, 30, 31, 40, 41}

Drawdowns == {0, -10, -11, -20, -21, -30, -31}

Vars95 == {0, -2, -3, -4, -5, -6}

\* Mutant: the top volatility band scores nothing.
VolatilityScore_TopBandDropped(volatility) ==
    IF volatility > 40 THEN 0
    ELSE IF volatility > 25 THEN 2
    ELSE IF volatility > 15 THEN 1
    ELSE 0

\* MCPDatabaseServer._classify_risk, "Volatility scoring".
VolatilityScore(volatility) ==
    IF volatility > 40 THEN 3
    ELSE IF volatility > 25 THEN 2
    ELSE IF volatility > 15 THEN 1
    ELSE 0

\* Mutant: the drawdown thresholds are inclusive.
DrawdownScore_Inclusive(max_drawdown) ==
    IF max_drawdown <= -30 THEN 3
    ELSE IF max_drawdown <= -20 THEN 2
    ELSE IF max_drawdown <= -10 THEN 1
    ELSE 0

\* MCPDatabaseServer._classify_risk, "Max drawdown scoring".
DrawdownScore(max_drawdown) ==
    IF max_drawdown < -30 THEN 3
    ELSE IF max_drawdown < -20 THEN 2
    ELSE IF max_drawdown < -10 THEN 1
    ELSE 0

\* MCPDatabaseServer._classify_risk, "VaR scoring".
VarScore(var_95) ==
    IF var_95 < -5 THEN 3
    ELSE IF var_95 < -3 THEN 2
    ELSE IF var_95 < -2 THEN 1
    ELSE 0

ClassifyRisk(volatility, max_drawdown, var_95) ==
    LET risk_score == VolatilityScore(volatility)
                        + DrawdownScore(max_drawdown) + VarScore(var_95)
    IN IF risk_score >= 7 THEN "Very High"
       ELSE IF risk_score >= 5 THEN "High"
       ELSE IF risk_score >= 3 THEN "Medium"
       ELSE IF risk_score >= 1 THEN "Low"
       ELSE "Very Low"

\* RiskAgent._classify_risk_level
high_vol_threshold == 30
high_drawdown_threshold == -20
high_var_threshold == -3
medium_vol_threshold == 20
medium_drawdown_threshold == -10
medium_var_threshold == -2

Count(conditions) == Cardinality({i \in DOMAIN conditions : conditions[i]})

ClassifyRiskLevel(volatility, max_drawdown, var_95) ==
    LET high_risk_count ==
            Count(<<volatility > high_vol_threshold,
                    max_drawdown < high_drawdown_threshold,
                    var_95 < high_var_threshold>>)
        medium_risk_count ==
            Count(<<medium_vol_threshold < volatility
                        /\ volatility <= high_vol_threshold,
                    medium_drawdown_threshold < max_drawdown
                        /\ max_drawdown <= high_drawdown_threshold,
                    medium_var_threshold < var_95
                        /\ var_95 <= high_var_threshold>>)
    IN IF high_risk_count >= 2 THEN "HIGH"
       ELSE IF high_risk_count >= 1 \/ medium_risk_count >= 2 THEN "MEDIUM"
       ELSE "LOW"

\* One classification: the arguments (at two volatilities, lower <= higher)
\* and, once the classifier has run, the level for each volatility.
NotRun == [lower |-> "", higher |-> ""]

Unclassified ==
    [lower |-> 0, higher |-> 0, max_drawdown |-> 0, var_95 |-> 0,
     server |-> NotRun, agent |-> NotRun]

ClassifierInputs ==
    {[lower |-> v1, higher |-> v2, max_drawdown |-> d, var_95 |-> r,
      server |-> NotRun, agent |-> NotRun] :
        v1 \in Volatilities, v2 \in Volatilities, d \in Drawdowns,
        r \in Vars95} \ {c \in [lower : Volatilities, higher : Volatilities,
                                 max_drawdown : Drawdowns, var_95 : Vars95,
                                 server : {NotRun}, agent : {NotRun}] :
                            c.lower > c.higher}

(***************************************************************************)
(* RiskAgent.analyze_portfolio_risk and _calculate_portfolio_volatility.   *)
(*                                                                         *)
(* For each symbol analyze_volatility returns None or a dictionary: the    *)
(* server's metrics (risk_level in title case, from _classify_risk), the   *)
(* direct calculation's metrics (risk_level in upper case, from            *)
(* _classify_risk_level), or a dictionary without risk_level (the server's *)
(* error dictionary, the direct calculation's metadata-only dictionary).   *)
(* Weights and volatilities are counted in hundredths.                     *)
(***************************************************************************)
MaxSymbols == 4

Universe == <<"TCS", "INFY", "RELIANCE", "HDFCBANK", "ITC">>

ServerLevels == {"High", "Medium"}

DirectLevels == {"HIGH", "MEDIUM", "LOW"}

IndividualVolatility == 25

RiskData(level) ==
    [risk_level |-> level, volatility |-> IndividualVolatility,
     sharpe_ratio |-> 1, beta |-> None]

VolatilityResults ==
    {None, InsufficientDataError}
        \cup {RiskData(level) : level \in ServerLevels \cup DirectLevels}

\* The weights argument: None, or a list, [list |-> <<...>>].
GivenWeights(n) ==
    CASE n = 1 -> <<100>>
      [] n = 2 -> <<60, 40>>
      [] n = 3 -> <<50, 30, 20>>
      [] n = 4 -> <<40, 30, 20, 10>>
      [] OTHER -> [i \in 1..n |-> IF i = 1 THEN 100 - 10 * (n - 1) ELSE 10]

WeightArguments(n) ==
    {None, [list |-> GivenWeights(n)],
     [list |-> SubSeq(GivenWeights(n), 1, n - 1)]}

NotReturned == [returned |-> FALSE]

NoPortfolio ==
    [symbols |-> <<>>, weights |-> None, risks |-> <<>>, resolved |-> <<>>,
     analysed |-> 0, calculated |-> [called |-> FALSE],
     result |-> NotReturned]

PortfolioInputs ==
    UNION {[symbols : {SubSeq(Universe, 1, n)},
            weights : WeightArguments(n),
            risks : [1..n -> VolatilityResults],
            resolved : [1..n -> BOOLEAN],
            analysed : {0},
            calculated : {[called |-> FALSE]},
            result : {NotReturned}] : n \in 1..MaxSymbols}

\* [1.0 / len(symbols)] * len(symbols)
EqualWeights(n) == [i \in 1..n |-> 100 \div n]

RECURSIVE SumOver(_, _)
SumOver(f, indices) ==
    IF indices = {} THEN 0
    ELSE LET i == CHOOSE j \in indices : TRUE
         IN f[i] + SumOver(f, indices \ {i})

\* dict.get(key, default)
Get(dict, key, default) == IF key \in DOMAIN dict THEN dict[key] ELSE default

\* _calculate_portfolio_volatility.  Fewer than two symbols with
\* historical data: None.  A covariance matrix over fewer symbols than
\* there are weights makes np.dot raise: None.  Otherwise the float, which
\* stands here for the symbols and weights it is computed from; it may be
\* 0.0.
MinResolved == 2

PortfolioVolatilities_OneIsEnough(symbols, weights, resolved) ==
    LET returns_data == {i \in 1..Len(symbols) : resolved[i]}
    IN IF Cardinality(returns_data) < 1 THEN {None}
       ELSE IF Cardinality(returns_data) # Len(weights) THEN {None}
       ELSE {Zero, [volatility_of |-> symbols, weights |-> weights]}

PortfolioVolatilities(symbols, weights, resolved) ==
    LET returns_data == {i \in 1..Len(symbols) : resolved[i]}
    IN IF Cardinality(returns_data) < MinResolved THEN {None}
       ELSE IF Cardinality(returns_data) # Len(weights) THEN {None}
       ELSE {Zero, [volatility_of |-> symbols, weights |-> weights]}

\* The part of analyze_portfolio_risk after the per-symbol analysis.
PortfolioRecord(symbols, weights, risks, portfolio_volatility) ==
    LET individual_risks == {i \in 1..Len(symbols) : Truthy(risks[i])}
        betas == [i \in 1..Len(symbols) |->
                    IF i \in individual_risks
                         /\ Get(risks[i], "beta", None) # None
                    THEN risks[i].beta * weights[i] ELSE 0]
        sharpes == [i \in 1..Len(symbols) |->
                      IF i \in individual_risks
                      THEN Get(risks[i], "sharpe_ratio", 0) * weights[i]
                      ELSE 0]
        risk_levels == [i \in individual_risks |->
                          Get(risks[i], "risk_level", "MEDIUM")]
        risk_distribution ==
            [level \in {"HIGH", "MEDIUM", "LOW"} |->
                Cardinality({i \in individual_risks : risk_levels[i] = level})]
    IN [portfolio_volatility |->
            \* round(portfolio_volatility, 4) if portfolio_volatility else None
            IF portfolio_volatility \in {None, Zero} THEN None
            ELSE portfolio_volatility,
        weighted_beta |-> SumOver(betas, 1..Len(symbols)),
        weighted_sharpe_ratio |-> SumOver(sharpes, 1..Len(symbols)),
        portfolio_risk_level |->
            \* > len(symbols) * 0.3 and > len(symbols) * 0.5
            IF 10 * risk_distribution["HIGH"] > 3 * Len(symbols) THEN "HIGH"
            ELSE IF risk_distribution["HIGH"] > 0
                      \/ 2 * risk_distribution["MEDIUM"] > Len(symbols)
                 THEN "MEDIUM"
            ELSE "LOW",
        risk_distribution |-> risk_distribution,
        individual_risks |-> [i \in individual_risks |-> risks[i]],
        symbols |-> symbols,
        weights |-> weights]

NotCalled == [called |-> FALSE]

\* The outcomes of one call: the value returned, the number of symbols
\* analyze_volatility was called for, and what
\* _calculate_portfolio_volatility returned if it was called.
AnalyzePortfolioRisk(symbols, given, risks, resolved) ==
    LET weights == IF given = None THEN EqualWeights(Len(symbols))
                   ELSE given.list
    IN IF Len(weights) # Len(symbols)
       THEN \* ValueError, caught by the except of the method
            {[result |-> EmptyDict, analysed |-> 0, calculated |-> NotCalled]}
       ELSE IF \A i \in 1..Len(symbols) : ~Truthy(risks[i])
       THEN {[result |-> EmptyDict, analysed |-> Len(symbols),
              calculated |-> NotCalled]}
       ELSE {[result |-> PortfolioRecord(symbols, weights, risks, pv),
              analysed |-> Len(symbols), calculated |-> pv] :
                pv \in PortfolioVolatilities(symbols, weights, resolved)}

(***************************************************************************)
(* RiskAgent._calculate_beta.                                              *)
(*                                                                         *)
(* A return series is a function from dates to returns, counted in         *)
(* hundredths.  The argument is the instrument's series; the index's       *)
(* series comes from the quote service, which may also give nothing or     *)
(* fail.  The two indexes carry the same dates only if both are in the     *)
(* same time zone convention; otherwise their intersection is empty.       *)
(* Statistics are exact fractions [num, den].                              *)
(***************************************************************************)
MaxDates == 12

Shapes == {"flat", "alternating", "pairs", "double"}

ReturnAt(shape, d) ==
    CASE shape = "flat" -> 0
      [] shape = "alternating" -> IF d % 2 = 0 THEN 1 ELSE -1
      [] shape = "pairs" -> IF d % 4 \in {0, 1} THEN 1 ELSE -1
      [] shape = "double" -> IF d % 2 = 0 THEN 2 ELSE -2

SeriesOver(shape, first, final) == [d \in first..final |-> ReturnAt(shape, d)]

EmptySeries == [d \in {} |-> 0]

StockSeries ==
    {SeriesOver(shape, 1, final) :
        shape \in Shapes, final \in (MaxDates - 2)..MaxDates}

FetchRaises == [raised |-> TRUE]

\* nifty_hist['Close'].pct_change().dropna() of what the quote service
\* gave for "^NSEI"; an empty frame gives the empty series.
NiftyFetches ==
    {FetchRaises, [returns |-> EmptySeries]} \cup
    {[returns |-> SeriesOver(shape, first, MaxDates)] :
        shape \in Shapes, first \in 1..3}

NoBeta == [returned |-> FALSE]

NoBetaRun ==
    [stock_returns |-> EmptySeries, nifty |-> FetchRaises,
     same_index |-> FALSE, result |-> NoBeta, reported |-> NoBeta]

BetaInputs ==
    [stock_returns : StockSeries, nifty : NiftyFetches,
     same_index : BOOLEAN, result : {NoBeta}, reported : {NoBeta}]

\* stock_returns.index.intersection(nifty_returns.index)
CommonDates(stock_returns, nifty_returns, same_index) ==
    IF same_index THEN DOMAIN stock_returns \cap DOMAIN nifty_returns ELSE {}

MinAligned == 10

TooFewCommon_NineIsEnough(common_dates) ==
    Cardinality(common_dates) < MinAligned - 1

TooFewCommon(common_dates) == Cardinality(common_dates) < MinAligned

Products(x, y, dates) == [d \in dates |-> x[d] * y[d]]

\* np.cov(x, y)[0][1]: normalised by N - 1.
Covariance(x, y, dates) ==
    LET n == Cardinality(dates)
    IN [num |-> n * SumOver(Products(x, y, dates), dates)
                  - SumOver(x, dates) * SumOver(y, dates),
        den |-> n * (n - 1)]

\* np.var(y): normalised by N.
Variance(y, dates) ==
    LET n == Cardinality(dates)
    IN [num |-> n * SumOver(Products(y, y, dates), dates)
                  - SumOver(y, dates) * SumOver(y, dates),
        den |-> n * n]

Quotient(a, b) == [num |-> a.num * b.den, den |-> a.den * b.num]

CalculateBeta(stock_returns, nifty, same_index) ==
    IF nifty = FetchRaises THEN None
    ELSE IF nifty.returns = EmptySeries THEN None
    ELSE LET common_dates ==
                 CommonDates(stock_returns, nifty.returns, same_index)
             covariance == Covariance(stock_returns, nifty.returns, common_dates)
             market_variance == Variance(nifty.returns, common_dates)
         IN IF TooFewCommon(common_dates) THEN None
            ELSE IF market_variance.num # 0
                 THEN Quotient(covariance, market_variance)
                 ELSE None

\* A float is false when it is zero: round(beta, 4) if beta else None
BetaEntry(beta) ==
    IF beta = None THEN None
    ELSE IF beta.num = 0 THEN None
    ELSE beta

(***************************************************************************)
(* The drawdown and value-at-risk statistics of _calculate_risk_metrics    *)
(* (server) and _compute_risk_metrics (agent).                             *)
(*                                                                         *)
(* Numbers are exact fractions in lowest terms, [num, den] with den > 0.   *)
(***************************************************************************)
MaxCloses == 5

PriceLevels == {1, 2, 3, 4}

CloseSeries ==
    UNION {[1..n -> PriceLevels] : n \in 2..MaxCloses}

Abs(a) == IF a < 0 THEN -a ELSE a

RECURSIVE Gcd(_, _)
Gcd(a, b) == IF b = 0 THEN a ELSE Gcd(b, a % b)

Frac(n, d) ==
    LET g == Gcd(Abs(n), Abs(d))
        sign == IF d < 0 THEN -1 ELSE 1
    IN [num |-> sign * (n \div g), den |-> sign * (d \div g)]

Whole(n) == [num |-> n, den |-> 1]

Plus(a, b) == Frac(a.num * b.den + b.num * a.den, a.den * b.den)

Minus(a, b) == Frac(a.num * b.den - b.num * a.den, a.den * b.den)

Times(a, b) == Frac(a.num * b.num, a.den * b.den)

Over(a, b) == Frac(a.num * b.den, a.den * b.num)

Less(a, b) == a.num * b.den < b.num * a.den

AtMost(a, b) == a.num * b.den <= b.num * a.den

\* df['Close'].pct_change().dropna()
PctChange(closes) ==
    [i \in 1..(Len(closes) - 1) |->
        Frac(closes[i + 1] - closes[i], closes[i])]

\* (1 + returns).cumprod()
RECURSIVE CumProd(_, _)
CumProd(returns, i) ==
    IF i = 1 THEN Plus(Whole(1), returns[1])
    ELSE Times(CumProd(returns, i - 1), Plus(Whole(1), returns[i]))

Cumulative(returns) == [i \in 1..Len(returns) |-> CumProd(returns, i)]

LargestOf(values) ==
    CHOOSE x \in values : \A y \in values : AtMost(y, x)

SmallestOf(values) ==
    CHOOSE x \in values : \A y \in values : AtMost(x, y)

\* cumulative.expanding().max()
RollingMax_WholeSeries(cumulative) ==
    [i \in 1..Len(cumulative) |->
        LargestOf({cumulative[j] : j \in 1..Len(cumulative)})]

RollingMax(cumulative) ==
    [i \in 1..Len(cumulative) |-> LargestOf({cumulative[j] : j \in 1..i})]

\* ((cumulative - rolling_max) / rolling_max).min()
MaxDrawdown(returns) ==
    LET cumulative == Cumulative(returns)
        rolling_max == RollingMax(cumulative)
        drawdown == [i \in 1..Len(returns) |->
                        Over(Minus(cumulative[i], rolling_max[i]),
                             rolling_max[i])]
    IN SmallestOf({drawdown[i] : i \in 1..Len(returns)})

\* The values in ascending order, as np.percentile arranges them.
RECURSIVE Ascending(_)
Ascending(values) ==
    IF Len(values) = 0 THEN <<>>
    ELSE LET i == CHOOSE j \in 1..Len(values) :
                     \A k \in 1..Len(values) : AtMost(values[j], values[k])
             rest == [k \in 1..(Len(values) - 1) |->
                         IF k < i THEN values[k] ELSE values[k + 1]]
         IN <<values[i]>> \o Ascending(rest)

\* np.percentile(a, q), linear interpolation between the two order
\* statistics around the virtual index (n - 1) * q / 100.
Percentile_Reflected(a, q) ==
    LET sorted == Ascending(a)
        n == Len(a)
        lo == ((n - 1) * q) \div 100
        hi == IF lo + 1 > n - 1 THEN n - 1 ELSE lo + 1
        gamma == Frac((n - 1) * q - 100 * lo, 100)
    IN Minus(sorted[hi + 1],
             Times(gamma, Minus(sorted[hi + 1], sorted[lo + 1])))

Percentile(a, q) ==
    LET sorted == Ascending(a)
        n == Len(a)
        lo == ((n - 1) * q) \div 100
        hi == IF lo + 1 > n - 1 THEN n - 1 ELSE lo + 1
        gamma == Frac((n - 1) * q - 100 * lo, 100)
    IN Plus(sorted[lo + 1],
            Times(gamma, Minus(sorted[hi + 1], sorted[lo + 1])))

\* round(x, 4)
Round4(x) ==
    LET whole == x.num \div x.den
        rest == x.num % x.den
    IN Frac(whole * 10000 + (2 * rest * 10000 + x.den) \div (2 * x.den),
            10000)

\* The three statistics as the server returns them: float(...).
ServerStatistics(closes) ==
    LET returns == PctChange(closes)
    IN IF Len(returns) < MinReturnsServer THEN InsufficientDataError
       ELSE [var_95 |-> Percentile(returns, 5),
             var_99 |-> Percentile(returns, 1),
             max_drawdown |-> MaxDrawdown(returns)]

\* The three statistics as the agent returns them: round(..., 4); no
\* record at all when the price range has zero width.
AgentStatistics(closes) ==
    LET returns == PctChange(closes)
    IN IF ZeroWidthRange(closes) THEN EmptyDict
       ELSE [var_95 |-> Round4(Percentile(returns, 5)),
             var_99 |-> Round4(Percentile(returns, 1)),
             max_drawdown |-> Round4(MaxDrawdown(returns))]

NoStats == [computed |-> FALSE]

NoStatsRun == [closes |-> <<>>, server |-> NoStats, agent |-> NoStats]

StatsInputs == [closes : CloseSeries, server : {NoStats}, agent : {NoStats}]

(***************************************************************************)
(* State.                                                                  *)
(***************************************************************************)
NoOut == [value |-> None, served |-> FALSE, computed |-> FALSE,
          wrote |-> FALSE, direct |-> FALSE, hist |-> NoData]

NoLast == [op |-> "none", symbol |-> "", period |-> "", at |-> 0,
           ret |-> None, hit |-> FALSE, gate |-> NotInvoked,
           computed |-> FALSE, inserted |-> {}, caught |-> FALSE,
           wire |-> [status |-> 0, body |-> None]]

InitStore ==
    /\ db \in {"none", "ok", "raises"}
    /\ now = StartDay * TicksPerDay
    /\ ticks = 0
    /\ calls = 0
    /\ historical_prices = {}
    /\ volatility_metrics = {}
    /\ pc = [c \in Callers |-> "idle"]
    /\ req = [c \in Callers |-> NoReq]
    /\ out = [c \in Callers |-> NoOut]
    /\ burst = [c \in Callers |-> {}]
    /\ last = NoLast
    /\ correlation_matrix = {}

Init ==
    /\ InitStore
    /\ classified = Unclassified
    /\ portfolio = NoPortfolio
    /\ beta_run = NoBetaRun
    /\ stats_run = NoStatsRun

\* The classifiers are functions of their three arguments: every
\* combination of the values around their thresholds is an initial state.
\* They do not read the store.
InitClassify ==
    /\ InitStore
    /\ db = "none"
    /\ classified \in ClassifierInputs
    /\ portfolio = NoPortfolio
    /\ beta_run = NoBetaRun
    /\ stats_run = NoStatsRun

\* analyze_portfolio_risk is a function of its arguments and of what
\* analyze_volatility and _get_historical_data return for each symbol.
InitPortfolio ==
    /\ InitStore
    /\ db = "none"
    /\ classified = Unclassified
    /\ portfolio \in PortfolioInputs
    /\ beta_run = NoBetaRun
    /\ stats_run = NoStatsRun

\* The statistics are functions of the close prices.
InitStatistics ==
    /\ InitStore
    /\ db = "none"
    /\ classified = Unclassified
    /\ portfolio = NoPortfolio
    /\ beta_run = NoBetaRun
    /\ stats_run \in StatsInputs

\* _calculate_beta is a function of its argument and of what the quote
\* service returns for the index.
InitBeta ==
    /\ InitStore
    /\ db = "none"
    /\ classified = Unclassified
    /\ portfolio = NoPortfolio
    /\ beta_run \in BetaInputs
    /\ stats_run = NoStatsRun

(***************************************************************************)
(* The clock advances by half an hour or by a day.                         *)
(***************************************************************************)
Tick ==
    /\ ticks < MaxTicks
    /\ \E delta \in {1, TicksPerDay} : now' = now + delta
    /\ ticks' = ticks + 1
    /\ UNCHANGED <<otherVars, db, calls, historical_prices, volatility_metrics,
                   pc, req, out, burst, last>>

(***************************************************************************)
(* RiskAgent.analyze_volatility, first half: post analyze_risk to the      *)
(* server.                                                                 *)
(***************************************************************************)
Pending(c) == pc[c] = "mcp"

CallAnalyzeVolatility(c) ==
    /\ pc[c] = "idle"
    /\ \E symbol \in Symbols, period \in Periods :
         LET key == [symbol |-> symbol, period |-> period]
             others == {d \in Callers \ {c} : Pending(d) /\ req[d] = key}
         IN /\ req' = [req EXCEPT ![c] = key]
            /\ burst' = [d \in Callers |->
                             IF d = c THEN others
                             ELSE IF d \in others THEN burst[d] \cup {c}
                             ELSE burst[d]]
    /\ pc' = [pc EXCEPT ![c] = "mcp"]
    /\ out' = [out EXCEPT ![c] = NoOut]
    /\ UNCHANGED <<otherVars, db, now, ticks, calls, historical_prices, volatility_metrics, last>>

(***************************************************************************)
(* The server handles caller c's analyze_risk request.  HTTPServer serves  *)
(* one request at a time, so the handler is one step.  The agent then      *)
(* takes the result, or goes on to the direct calculation.                 *)
(***************************************************************************)
Observation(op, symbol, period, o, wire) ==
    [op |-> op, symbol |-> symbol, period |-> period, at |-> now,
     ret |-> o.ret, hit |-> o.hit, gate |-> o.gate,
     computed |-> o.computed, inserted |-> o.inserted, caught |-> o.caught,
     wire |-> wire]

ServeAnalyzeRisk(c) ==
    /\ pc[c] = "mcp"
    /\ calls < MaxCalls
    /\ \E n \in FetchLens(req[c].period), fails \in Fails :
         \E o \in AnalyzeRisk(req[c].symbol, req[c].period, n, fails) :
           LET wire == DoPost(HandleAnalyzeRisk(o.ret))
               mcp_risk == GetRiskFromMcp(wire)
           IN /\ Cardinality(volatility_metrics \cup o.inserted) <= MaxRecords
              /\ historical_prices' = historical_prices \cup o.gate.appended
              /\ volatility_metrics' = volatility_metrics \cup o.inserted
              /\ last' = Observation("analyze_risk", req[c].symbol,
                                     req[c].period, o, wire)
              /\ IF Truthy(mcp_risk)
                 THEN /\ pc' = [pc EXCEPT ![c] = "done"]
                      /\ out' = [out EXCEPT ![c] =
                                   [value |-> mcp_risk, served |-> TRUE,
                                    computed |-> o.computed,
                                    wrote |-> o.inserted # {},
                                    direct |-> FALSE, hist |-> NoData]]
                 ELSE /\ pc' = [pc EXCEPT ![c] = "direct"]
                      /\ out' = [out EXCEPT ![c] =
                                   [value |-> None, served |-> TRUE,
                                    computed |-> o.computed,
                                    wrote |-> o.inserted # {},
                                    direct |-> FALSE, hist |-> NoData]]
    /\ calls' = calls + 1
    /\ UNCHANGED <<otherVars, db, now, ticks, req, burst>>

\* The post fails: connection refused, timeout (requests raises).
TransportFailure(c) ==
    /\ pc[c] = "mcp"
    /\ pc' = [pc EXCEPT ![c] = "direct"]
    /\ UNCHANGED <<otherVars, db, now, ticks, calls, historical_prices,
                   volatility_metrics, req, out, burst, last>>

(***************************************************************************)
(* RiskAgent.analyze_volatility, second half: the direct calculation.      *)
(***************************************************************************)
DirectCalculation(c) ==
    /\ pc[c] = "direct"
    /\ \E n \in AgentFetchLens(req[c].period) :
         out' = [out EXCEPT ![c].value =
                     AgentCalculateRiskMetrics(req[c].symbol, req[c].period, n),
                            ![c].direct = TRUE,
                            ![c].hist = AgentGetHistoricalData(req[c].symbol, n)]
    /\ pc' = [pc EXCEPT ![c] = "done"]
    /\ UNCHANGED <<otherVars, db, now, ticks, calls, historical_prices,
                   volatility_metrics, req, burst, last>>

(***************************************************************************)
(* A client posts get_historical_prices.                                   *)
(***************************************************************************)
ServeGetHistoricalPrices ==
    /\ calls < MaxCalls
    /\ \E symbol \in Symbols, period \in Periods :
      \E n \in FetchLens(period), fails \in Fails :
        LET o == GetHistoricalPrices(symbol, period, n, fails)
            wire == DoPost(HandleGetHistoricalPrices(o.ret))
        IN /\ historical_prices' = historical_prices \cup o.gate.appended
           /\ last' = Observation("get_historical_prices", symbol, period,
                                  o, wire)
           /\ calls' = calls + 1
           /\ UNCHANGED <<otherVars, db, now, ticks, volatility_metrics,
                          pc, req, out, burst>>

\* A client other than the agent posts analyze_risk.
ClientAnalyzeRisk ==
    /\ calls < MaxCalls
    /\ \E symbol \in Symbols, period \in Periods :
      \E n \in FetchLens(period), fails \in Fails :
        \E o \in AnalyzeRisk(symbol, period, n, fails) :
          /\ Cardinality(volatility_metrics \cup o.inserted) <= MaxRecords
          /\ historical_prices' = historical_prices \cup o.gate.appended
          /\ volatility_metrics' = volatility_metrics \cup o.inserted
          /\ last' = Observation("analyze_risk", symbol, period, o,
                                 DoPost(HandleAnalyzeRisk(o.ret)))
          /\ calls' = calls + 1
          /\ UNCHANGED <<otherVars, db, now, ticks, pc, req, out, burst>>

(***************************************************************************)
(* A client posts store_correlation.                                       *)
(***************************************************************************)
ServeStoreCorrelation ==
    /\ calls < MaxCalls
    /\ \E correlations \in Correlations :
         \E failAt \in FailPoints(correlations) :
           LET o == StoreCorrelationMatrix(correlations, failAt)
               wire == DoPost(HandleStoreCorrelation(o))
           IN /\ correlation_matrix' = o.coll
              /\ last' = [NoLast EXCEPT !.op = "store_correlation",
                                        !.at = now,
                                        !.ret = IF o.raised THEN None
                                                ELSE [success |-> o.ret],
                                        !.caught = o.raised,
                                        !.wire = wire]
    /\ calls' = calls + 1
    /\ UNCHANGED <<classified, portfolio, beta_run, stats_run, db, now, ticks,
                   historical_prices,
                   volatility_metrics, pc, req, out, burst>>

(***************************************************************************)
(* The classifiers run on the arguments of the state.                      *)
(***************************************************************************)
RunClassifyRisk ==
    /\ classified.server = NotRun
    /\ classified' =
         [classified EXCEPT !.server =
            [lower |-> ClassifyRisk(classified.lower,
                                    classified.max_drawdown, classified.var_95),
             higher |-> ClassifyRisk(classified.higher,
                                     classified.max_drawdown, classified.var_95)]]
    /\ UNCHANGED <<correlation_matrix, portfolio, beta_run, stats_run, db, now,
                   ticks, calls,
                   historical_prices, volatility_metrics, pc, req, out,
                   burst, last>>

RunClassifyRiskLevel ==
    /\ classified.agent = NotRun
    /\ classified' =
         [classified EXCEPT !.agent =
            [lower |-> ClassifyRiskLevel(classified.lower,
                                         classified.max_drawdown, classified.var_95),
             higher |-> ClassifyRiskLevel(classified.higher,
                                          classified.max_drawdown, classified.var_95)]]
    /\ UNCHANGED <<correlation_matrix, portfolio, beta_run, stats_run, db, now,
                   ticks, calls,
                   historical_prices, volatility_metrics, pc, req, out,
                   burst, last>>

(***************************************************************************)
(* RiskAgent.analyze_portfolio_risk runs on the arguments of the state.    *)
(***************************************************************************)
RunAnalyzePortfolioRisk ==
    /\ portfolio.result = NotReturned
    /\ portfolio.symbols # <<>>
    /\ \E o \in AnalyzePortfolioRisk(portfolio.symbols, portfolio.weights,
                                     portfolio.risks, portfolio.resolved) :
         portfolio' = [portfolio EXCEPT !.result = o.result,
                                        !.analysed = o.analysed,
                                        !.calculated = o.calculated]
    /\ UNCHANGED <<correlation_matrix, classified, beta_run, stats_run, db, now,
                   ticks, calls,
                   historical_prices, volatility_metrics, pc, req, out,
                   burst, last>>

(***************************************************************************)
(* RiskAgent._calculate_beta runs on the arguments of the state, and       *)
(* _compute_risk_metrics writes its result into the risk record.           *)
(***************************************************************************)
RunCalculateBeta ==
    /\ beta_run.result = NoBeta
    /\ beta_run.stock_returns # EmptySeries
    /\ LET beta == CalculateBeta(beta_run.stock_returns, beta_run.nifty,
                                 beta_run.same_index)
       IN beta_run' = [beta_run EXCEPT !.result = beta,
                                       !.reported = BetaEntry(beta)]
    /\ UNCHANGED <<correlation_matrix, classified, portfolio, stats_run, db,
                   now, ticks, calls, historical_prices, volatility_metrics,
                   pc, req, out, burst, last>>

(***************************************************************************)
(* The two metric functions run on the close prices of the state.          *)
(***************************************************************************)
RunServerStatistics ==
    /\ stats_run.server = NoStats
    /\ stats_run.closes # <<>>
    /\ stats_run' = [stats_run EXCEPT
                        !.server = ServerStatistics(stats_run.closes)]
    /\ UNCHANGED <<correlation_matrix, classified, portfolio, beta_run, db,
                   now, ticks, calls, historical_prices, volatility_metrics,
                   pc, req, out, burst, last>>

RunAgentStatistics ==
    /\ stats_run.agent = NoStats
    /\ stats_run.closes # <<>>
    /\ stats_run' = [stats_run EXCEPT
                        !.agent = AgentStatistics(stats_run.closes)]
    /\ UNCHANGED <<correlation_matrix, classified, portfolio, beta_run, db,
                   now, ticks, calls, historical_prices, volatility_metrics,
                   pc, req, out, burst, last>>

(***************************************************************************)
(* Spec: the server and its clients' requests over time.                   *)
(* SpecAgent: RiskAgent callers running concurrently against the server.   *)
(***************************************************************************)
Next ==
    \/ Tick
    \/ ClientAnalyzeRisk
    \/ ServeGetHistoricalPrices

Spec == Init /\ [][Next]_vars

NextAgent ==
    \/ Tick
    \/ \E c \in Callers : CallAnalyzeVolatility(c)
    \/ \E c \in Callers : ServeAnalyzeRisk(c)
    \/ \E c \in Callers : TransportFailure(c)
    \/ \E c \in Callers : DirectCalculation(c)

SpecAgent == Init /\ [][NextAgent]_vars

\* SpecCorrelation: clients storing correlation coefficients over time.
NextCorrelation ==
    \/ Tick
    \/ ServeStoreCorrelation

SpecCorrelation == Init /\ [][NextCorrelation]_vars

\* SpecClassify: the two classifiers applied to every input.
NextClassify ==
    \/ RunClassifyRisk
    \/ RunClassifyRiskLevel

SpecClassify == InitClassify /\ [][NextClassify]_vars

\* SpecPortfolio: analyze_portfolio_risk applied to every input.
NextPortfolio == RunAnalyzePortfolioRisk

SpecPortfolio == InitPortfolio /\ [][NextPortfolio]_vars

\* SpecBeta: _calculate_beta applied to every input.
NextBeta == RunCalculateBeta

SpecBeta == InitBeta /\ [][NextBeta]_vars

\* SpecStatistics: the drawdown and value-at-risk statistics of every
\* price series.
NextStatistics ==
    \/ RunServerStatistics
    \/ RunAgentStatistics

SpecStatistics == InitStatistics /\ [][NextStatistics]_vars

(***************************************************************************)
(* Vocabulary of the properties.                                           *)
(***************************************************************************)
Hour == CacheHours * TicksPerHour

\* This step is the server handling an analyze_risk request.
AnalyzeRiskStep == calls' = calls + 1 /\ last'.op = "analyze_risk"

\* This step is the server handling a get_historical_prices request.
GetPricesStep == calls' = calls + 1 /\ last'.op = "get_historical_prices"

DocsOf(symbol, period) ==
    {doc \in volatility_metrics : doc.symbol = symbol /\ doc.period = period}

\* The key has a record and none of its records is younger than one hour.
Stale(symbol, period) ==
    /\ DocsOf(symbol, period) # {}
    /\ \A doc \in DocsOf(symbol, period) : doc.timestamp < now - Hour

Fresh(symbol, period) ==
    \E doc \in DocsOf(symbol, period) : doc.timestamp >= now - Hour

(***************************************************************************)
(* C1: two successive analyze_risk calls for the same key within the same  *)
(* hour, with no new price data in between, return an identical record     *)
(* (same fields, same computed-at timestamp), and the second call does not *)
(* recompute, fetch or write.  Stated for the most favourable case: the    *)
(* first call computed and stored its record, the second is made on the    *)
(* same day within the hour and is answered from the cache.                *)
(***************************************************************************)
C1_SecondCallOfPair ==
    /\ AnalyzeRiskStep
    /\ last.op = "analyze_risk"
    /\ last.symbol = last'.symbol /\ last.period = last'.period
    /\ IsMetrics(last.ret) /\ last.inserted # {}
    /\ now - last.at <= Hour
    /\ now \div TicksPerDay = last.at \div TicksPerDay
    /\ last'.hit

C1_IdenticalRecord ==
    [][C1_SecondCallOfPair =>
          /\ last'.ret = last.ret
          /\ ~last'.computed
          /\ ~last'.gate.called
          /\ last'.inserted = {}]_vars

(***************************************************************************)
(* C2: when analyze_risk is called on a Stale key and the recompute fails  *)
(* (no series, or too short a series), the caller receives the failure:    *)
(* None or the insufficient-data error, never a stored record and never    *)
(* any other record.                                                       *)
(***************************************************************************)
C2_RecomputeSucceeded ==
    last'.computed /\ NumReturns(last'.gate.df) >= MinReturnsServer

IsFailure(ret) == ret = None \/ ret = InsufficientDataError

C2_StaleFailureNotSubstituted ==
    [][(AnalyzeRiskStep /\ Stale(last'.symbol, last'.period)
          /\ ~C2_RecomputeSucceeded)
        => /\ IsFailure(last'.ret)
           /\ \A doc \in volatility_metrics : last'.ret # StripId(doc)
           /\ ("result" \in DOMAIN last'.wire.body
                 => IsErrorDict(last'.wire.body.result))]_vars

\* Reached: a key with an old record only, whose recompute found no series.
C2_Witness ==
    /\ last.op = "analyze_risk" /\ last.at = now
    /\ last.ret = None /\ last.gate.invoked
    /\ Stale(last.symbol, last.period)

(***************************************************************************)
(* C3: analyze_risk skips the computation only if a record of exactly that *)
(* key is at most one hour old, and then serves the newest such record;    *)
(* with no such record it resolves the series and computes as for a key    *)
(* that has no record, and a record it stores makes the key Fresh.         *)
(***************************************************************************)
FreshDocs(symbol, period) ==
    {doc \in DocsOf(symbol, period) : doc.timestamp >= now - Hour}

C3_ServesNewestFresh ==
    \E doc \in FreshDocs(last'.symbol, last'.period) :
        /\ last'.ret = StripId(doc)
        /\ \A other \in FreshDocs(last'.symbol, last'.period) :
               other.timestamp <= doc.timestamp

C3_CacheDecision ==
    [][AnalyzeRiskStep =>
         /\ (~last'.gate.invoked => last'.hit)
         /\ (last'.hit => C3_ServesNewestFresh /\ ~last'.computed)
         /\ (~Fresh(last'.symbol, last'.period) =>
               /\ ~last'.hit
               /\ last'.gate.invoked
               /\ (last'.gate.df # NoData => last'.computed)
               /\ (last'.inserted # {} =>
                     \E doc \in volatility_metrics' :
                         /\ doc.symbol = last'.symbol
                         /\ doc.period = last'.period
                         /\ doc.timestamp >= now' - Hour))]_vars

(***************************************************************************)
(* C4: concurrent analyze_risk requests for one key without a fresh record *)
(* collapse into one computation: the callers of a burst all receive the   *)
(* same result, at most one of their requests is computed and at most one  *)
(* record is written.                                                      *)
(***************************************************************************)
C4_Coalesced ==
    \A c \in Callers : \A d \in burst[c] :
        (pc[c] = "done" /\ pc[d] = "done") =>
            /\ out[c].value = out[d].value
            /\ ~(out[c].computed /\ out[d].computed)
            /\ ~(out[c].wrote /\ out[d].wrote)

(***************************************************************************)
(* C5: no risk computation proceeds with fewer than 10 returns: a series   *)
(* with fewer returns makes analyze_risk fail, on the server and in the    *)
(* agent's direct calculation.                                             *)
(***************************************************************************)
C5_TenReturnsRequired ==
    (last.op = "analyze_risk" /\ last.gate.invoked
        /\ NumReturns(last.gate.df) < MinReturnsAgent)
    => IsFailure(last.ret)

(***************************************************************************)
(* C6: an error inside the metric computation reaches the caller as a      *)
(* failure: a value analyze_volatility returns from its direct calculation *)
(* is a full risk record, never one without the statistics and risk level. *)
(***************************************************************************)
C6_NoErrorAsResult ==
    \A c \in Callers :
        (pc[c] = "done" /\ out[c].direct /\ out[c].value # None)
        => IsMetrics(out[c].value)

(***************************************************************************)
(* C7: when neither the store nor the quote source yields a bar, both      *)
(* analyze_risk and get_historical_prices answer with an error response,   *)
(* never with a result.                                                    *)
(***************************************************************************)
C7_NoBarsIsError ==
    (last.op # "none" /\ last.gate.invoked /\ last.gate.df = NoData)
    => /\ "error" \in DOMAIN last.wire.body
       /\ "result" \notin DOMAIN last.wire.body

(***************************************************************************)
(* C8: when the series read from the store is empty or its newest bar is   *)
(* more than one day old, _get_historical_data calls the quote source; a   *)
(* non-empty fetch is appended and returned; otherwise the stored series   *)
(* is returned.                                                            *)
(***************************************************************************)
DaysOldAt(df, t) == (t \div TicksPerDay) - df[Len(df)].date

StoredIsRecent(obs) ==
    /\ obs.gate.stored # NoData
    /\ DaysOldAt(obs.gate.stored, obs.at) <= FreshDays

FetchedDocs(obs) ==
    {PriceDocAt(obs.symbol, obs.gate.fetched[i], obs.at) :
        i \in 1..Len(obs.gate.fetched)}

C8_RefreshOrFallBack ==
    (last.gate.invoked /\ ~StoredIsRecent(last))
    => /\ last.gate.called
       /\ (last.gate.fetched # NoData =>
             /\ last.gate.df = last.gate.fetched
             /\ last.gate.appended \subseteq FetchedDocs(last)
             /\ last.gate.appended \subseteq historical_prices)
       /\ (last.gate.fetched = NoData => last.gate.df = last.gate.stored)

(***************************************************************************)
(* C9: when the newest bar of the series read from the store is at most    *)
(* one day old, _get_historical_data returns that series, does not call    *)
(* the quote source and leaves historical_prices as it is.                 *)
(***************************************************************************)
C9_RecentStoredSeriesIsUsed ==
    [][((AnalyzeRiskStep \/ GetPricesStep) /\ last'.gate.invoked
           /\ StoredIsRecent(last'))
        => /\ ~last'.gate.called
           /\ last'.gate.df = last'.gate.stored
           /\ last'.gate.appended = {}
           /\ historical_prices' = historical_prices]_vars

\* Reached: a request answered from bars stored one day earlier.
C9_Witness ==
    /\ last.gate.invoked /\ last.at = now
    /\ StoredIsRecent(last)
    /\ DaysOldAt(last.gate.stored, last.at) = FreshDays
    /\ last.gate.df = last.gate.stored

(***************************************************************************)
(* C10: a store failure alone never makes a call fail: analyze_risk and    *)
(* get_historical_prices fail only when the quote source was asked and     *)
(* gave no bars.                                                           *)
(***************************************************************************)
CallFailed(obs) ==
    \/ obs.op = "analyze_risk" /\ obs.ret = None
    \/ obs.op = "get_historical_prices" /\ IsErrorDict(obs.ret)

C10_StoreFailureNeverFatal ==
    CallFailed(last) =>
        /\ last.gate.invoked
        /\ last.gate.called
        /\ last.gate.fetched = NoData

(***************************************************************************)
(* C11: appending bars is idempotent on (symbol, date): historical_prices  *)
(* holds one bar per (symbol, date), a stored bar is never modified or     *)
(* deleted, an append that reaches the store leaves every bar of the batch *)
(* stored, and a collision does not fail the call, which returns the       *)
(* fetched series.                                                         *)
(***************************************************************************)
OneBarPerDate ==
    \A d1, d2 \in historical_prices :
        (d1.symbol = d2.symbol /\ d1.date = d2.date) => d1 = d2

BatchStored(obs) ==
    \A i \in 1..Len(obs.gate.fetched) :
        \E d \in historical_prices :
            /\ d.symbol = obs.symbol
            /\ d.date = obs.gate.fetched[i].date

Collided(obs) ==
    \E i \in 1..Len(obs.gate.fetched) :
        PriceDocAt(obs.symbol, obs.gate.fetched[i], obs.at) \notin obs.gate.appended

CarriesMetrics(doc, metrics) ==
    /\ DOMAIN metrics \subseteq DOMAIN doc
    /\ \A f \in DOMAIN metrics : doc[f] = metrics[f]

C12_RecordsAppendOnly ==
    [][/\ volatility_metrics \subseteq volatility_metrics'
       /\ \A doc \in volatility_metrics' \ volatility_metrics :
            /\ AnalyzeRiskStep
            /\ last'.computed
            /\ doc.symbol = last'.symbol
            /\ doc.period = last'.period
            /\ doc.timestamp = now'
            /\ CarriesMetrics(doc, last'.ret)]_vars

\* Reached: a second record written for a key that already has an older one.
C12_Witness ==
    /\ last.at = now
    /\ last.inserted # {}
    /\ \E old \in volatility_metrics :
          /\ old.symbol = last.symbol /\ old.period = last.period
          /\ old.timestamp < now

(***************************************************************************)
(* C13: correlation_matrix holds at most one entry per unordered pair of   *)
(* symbols: a coefficient stored for "A_B" and one stored for "B_A" are    *)
(* the same entry.                                                         *)
(***************************************************************************)
C13_OneEntryPerUnorderedPair ==
    \A d1, d2 \in correlation_matrix :
        ({d1.symbol1, d1.symbol2} = {d2.symbol1, d2.symbol2}) => d1 = d2

(***************************************************************************)
(* C14: _classify_risk sums three sub-scores of 0..3 (volatility above     *)
(* 0.40/0.25/0.15, max drawdown below -0.30/-0.20/-0.10, VaR-95 below      *)
(* -0.05/-0.03/-0.02 give 3/2/1) and maps a total of at least 7 to Very    *)
(* High, 5 to High, 3 to Medium, 1 to Low, and 0 to Very Low.              *)
(***************************************************************************)
SubScore(x, limit3, limit2, limit1) ==
    CASE x > limit3 -> 3
      [] x <= limit3 /\ x > limit2 -> 2
      [] x <= limit2 /\ x > limit1 -> 1
      [] x <= limit1 -> 0

TotalScore(volatility, max_drawdown, var_95) ==
    SubScore(volatility, 40, 25, 15)
      + SubScore(-max_drawdown, 30, 20, 10)
      + SubScore(-var_95, 5, 3, 2)

LevelOfTotal(total) ==
    CASE total \in 7..9 -> "Very High"
      [] total \in 5..6 -> "High"
      [] total \in 3..4 -> "Medium"
      [] total \in 1..2 -> "Low"
      [] total = 0 -> "Very Low"

C14_ScoreTable ==
    classified.server # NotRun =>
        /\ classified.server.lower =
             LevelOfTotal(TotalScore(classified.lower,
                                     classified.max_drawdown, classified.var_95))
        /\ classified.server.higher =
             LevelOfTotal(TotalScore(classified.higher,
                                     classified.max_drawdown, classified.var_95))

\* Reached: a classification exactly on the three lowest thresholds, which
\* scores nothing, next to one just beyond the volatility threshold.
C14_Witness ==
    /\ classified.lower = 15 /\ classified.higher = 16
    /\ classified.max_drawdown = -10 /\ classified.var_95 = -2
    /\ classified.server = [lower |-> "Very Low", higher |-> "Low"]

(***************************************************************************)
(* C15: both classifiers are monotonic in volatility: with max drawdown    *)
(* and VaR-95 fixed, the level for the higher volatility is never lower    *)
(* than the level for the lower one.                                       *)
(***************************************************************************)
Rank(level) ==
    CASE level = "Very Low" -> 0
      [] level \in {"Low", "LOW"} -> 1
      [] level \in {"Medium", "MEDIUM"} -> 2
      [] level \in {"High", "HIGH"} -> 3
      [] level = "Very High" -> 4

C15_MonotonicInVolatility ==
    /\ classified.server # NotRun =>
          Rank(classified.server.lower) <= Rank(classified.server.higher)
    /\ classified.agent # NotRun =>
          Rank(classified.agent.lower) <= Rank(classified.agent.higher)

\* Reached: both classifiers have run and the higher volatility raised the
\* level of each.
C15_Witness ==
    /\ classified.server # NotRun /\ classified.agent # NotRun
    /\ Rank(classified.server.lower) < Rank(classified.server.higher)
    /\ Rank(classified.agent.lower) < Rank(classified.agent.higher)

(***************************************************************************)
(* Vocabulary of the portfolio properties.                                 *)
(***************************************************************************)
Returned == portfolio.result # NotReturned

IsPortfolioRecord(v) == "portfolio_risk_level" \in DOMAIN v

WeightsMatch ==
    portfolio.weights = None
        \/ Len(portfolio.weights.list) = Len(portfolio.symbols)

Analysed == {i \in 1..Len(portfolio.symbols) : portfolio.risks[i] # None}

Rated(levels) ==
    {i \in Analysed : Get(portfolio.risks[i], "risk_level", "") \in levels}

NumResolved ==
    Cardinality({i \in 1..Len(portfolio.symbols) : portfolio.resolved[i]})

(***************************************************************************)
(* C16: the aggregate risk level is High when more than 30% of the symbols *)
(* are individually rated High or Very High, otherwise Medium when any     *)
(* symbol is high-risk or more than 50% are rated Medium, otherwise Low.   *)
(* Stated for the calls in which every symbol was analysed and rated.      *)
(***************************************************************************)
HighRated == Rated({"High", "Very High", "HIGH"})

MediumRated == Rated({"Medium", "MEDIUM"})

ExpectedPortfolioLevel ==
    IF 10 * Cardinality(HighRated) > 3 * Len(portfolio.symbols) THEN "HIGH"
    ELSE IF HighRated # {}
            \/ 2 * Cardinality(MediumRated) > Len(portfolio.symbols)
         THEN "MEDIUM"
    ELSE "LOW"

C16_AggregateLevel ==
    (/\ Returned
     /\ WeightsMatch
     /\ \A i \in 1..Len(portfolio.symbols) :
            "risk_level" \in DOMAIN portfolio.risks[i])
    => /\ IsPortfolioRecord(portfolio.result)
       /\ portfolio.result.portfolio_risk_level = ExpectedPortfolioLevel

(***************************************************************************)
(* C17: a call whose weights do not match its symbols in number fails with *)
(* an invalid-weights failure that the caller receives, before any symbol  *)
(* is analysed.                                                            *)
(***************************************************************************)
ReportsFailure(v) == "error" \in DOMAIN v

C17_InvalidWeightsReported ==
    (Returned /\ ~WeightsMatch)
    => /\ portfolio.analysed = 0
       /\ ReportsFailure(portfolio.result)

(***************************************************************************)
(* C18 as stated: whenever fewer than 2 symbols have a resolvable series,  *)
(* the portfolio record is returned, with a null portfolio volatility and  *)
(* the other aggregates.                                                   *)
(***************************************************************************)
HasOtherAggregates(v) ==
    {"weighted_beta", "weighted_sharpe_ratio", "portfolio_risk_level",
     "risk_distribution", "individual_risks"} \subseteq DOMAIN v

C19_SingleSymbolVolatility ==
    (/\ Returned
     /\ Len(portfolio.symbols) = 1
     /\ portfolio.weights = [list |-> <<100>>]
     /\ portfolio.resolved[1]
     /\ "volatility" \in DOMAIN portfolio.risks[1])
    => /\ IsPortfolioRecord(portfolio.result)
       /\ portfolio.result.portfolio_volatility # None
       /\ portfolio.result.portfolio_volatility =
             [volatility_of |-> portfolio.symbols, weights |-> <<100>>]

(***************************************************************************)
(* C20: a zero denominator short-circuits to a sentinel: with a zero       *)
(* standard deviation of the returns the Sharpe ratio is 0, with a price   *)
(* range of zero width the price position is guarded, and in both cases    *)
(* the computation returns the complete set of risk metrics.               *)
(***************************************************************************)
ServerZeroStd ==
    /\ last.op = "analyze_risk" /\ last.computed
    /\ NumReturns(last.gate.df) >= MinReturnsServer
    /\ ZeroStd(Closes(last.gate.df))

DirectZeroDenominator(c) ==
    /\ pc[c] = "done" /\ out[c].direct
    /\ NumReturns(out[c].hist) >= MinReturnsAgent
    /\ ZeroStd(Closes(out[c].hist)) \/ ZeroWidthRange(Closes(out[c].hist))

C20_ZeroDenominatorGuarded ==
    /\ ServerZeroStd =>
          IsMetrics(last.ret) /\ last.ret.sharpe_ratio = Zero
    /\ \A c \in Callers :
          DirectZeroDenominator(c) =>
             /\ IsMetrics(out[c].value)
             /\ out[c].value.sharpe_ratio = Zero
             /\ "price_position" \in DOMAIN out[c].value

(***************************************************************************)
(* Vocabulary of the claims about beta.                                    *)
(***************************************************************************)
BetaReturned == beta_run.result # NoBeta

HasIndexReturns == beta_run.nifty # FetchRaises

\* The dates on which both series have a return.
Aligned ==
    IF HasIndexReturns /\ beta_run.same_index
    THEN DOMAIN beta_run.stock_returns \cap DOMAIN beta_run.nifty.returns
    ELSE {}

ConstantOn(series, dates) == \A d, e \in dates : series[d] = series[e]

IsFraction(v) == DOMAIN v = {"num", "den"} /\ v.den # 0

(***************************************************************************)
(* C21: _calculate_beta returns None when fewer than 10 dates are common   *)
(* to the two return series, returns None when the index's returns have    *)
(* zero variance over the common dates, and always returns to its caller:  *)
(* None or a number.                                                       *)
(***************************************************************************)
C21_BetaAbsentNotRaised ==
    BetaReturned =>
       /\ Cardinality(Aligned) < 10 => beta_run.result = None
       /\ (HasIndexReturns /\ ConstantOn(beta_run.nifty.returns, Aligned))
             => beta_run.result = None
       /\ beta_run.result = None \/ IsFraction(beta_run.result)

C21_Witness ==
    /\ BetaReturned
    /\ Cardinality(Aligned) >= 10
    /\ ConstantOn(beta_run.nifty.returns, Aligned)
    /\ ~ConstantOn(beta_run.stock_returns, Aligned)
    /\ beta_run.result = None

(***************************************************************************)
(* C22: an absent beta means only "not computable": when _calculate_beta   *)
(* returns the number zero for an instrument whose risk record is built,   *)
(* the beta entry of the record is that zero, not None.                    *)
(***************************************************************************)
\* The prices move, so that _compute_risk_metrics does build its record.
PricesMove ==
    ~ConstantOn(beta_run.stock_returns, DOMAIN beta_run.stock_returns)

C22_ZeroBetaReported ==
    (/\ BetaReturned /\ PricesMove
     /\ IsFraction(beta_run.result) /\ beta_run.result.num = 0)
       => beta_run.reported = beta_run.result

(***************************************************************************)
(* C25: a computed beta is covariance / variance with both statistics      *)
(* taken over the aligned dates under one normalisation, so an instrument  *)
(* whose aligned returns equal the index's has beta exactly 1.             *)
(***************************************************************************)
\* Sums of centred products over the aligned dates, times their number:
\* the normalisation cancels in the ratio when it is the same for both.
CentredCross ==
    Cardinality(Aligned)
        * SumOver(Products(beta_run.stock_returns, beta_run.nifty.returns,
                           Aligned), Aligned)
      - SumOver(beta_run.stock_returns, Aligned)
          * SumOver(beta_run.nifty.returns, Aligned)

CentredSquare ==
    Cardinality(Aligned)
        * SumOver(Products(beta_run.nifty.returns, beta_run.nifty.returns,
                           Aligned), Aligned)
      - SumOver(beta_run.nifty.returns, Aligned)
          * SumOver(beta_run.nifty.returns, Aligned)

SameReturns ==
    \A d \in Aligned : beta_run.stock_returns[d] = beta_run.nifty.returns[d]

C25_BetaIsCovarianceOverVariance ==
    (BetaReturned /\ IsFraction(beta_run.result)) =>
       /\ beta_run.result.num * CentredSquare
             = beta_run.result.den * CentredCross
       /\ SameReturns => beta_run.result.num = beta_run.result.den

(***************************************************************************)
(* Vocabulary of the claims about the statistics.                          *)
(***************************************************************************)
Computed(stats) == "max_drawdown" \in DOMAIN stats

BothStatistics == {stats_run.server, stats_run.agent}

NonDecreasing(closes) ==
    \A i \in 1..(Len(closes) - 1) : closes[i] <= closes[i + 1]

(***************************************************************************)
(* C23: the computed max drawdown is never positive, and it is 0 when the  *)
(* price series never falls.                                               *)
(***************************************************************************)
C23_DrawdownNotPositive ==
    \A stats \in BothStatistics :
       Computed(stats) =>
          /\ stats.max_drawdown.num <= 0
          /\ NonDecreasing(stats_run.closes) => stats.max_drawdown.num = 0

C23_Witness ==
    /\ Computed(stats_run.server) /\ Computed(stats_run.agent)
    /\ NonDecreasing(stats_run.closes)
    /\ stats_run.closes[1] < stats_run.closes[Len(stats_run.closes)]
    /\ stats_run.server.max_drawdown.num = 0

(***************************************************************************)
(* C24: with more than one return, the reported VaR-95 (5th percentile)    *)
(* is at least the reported VaR-99 (1st percentile).                       *)
(***************************************************************************)
C24_Var95AtLeastVar99 ==
    \A stats \in BothStatistics :
       (Computed(stats) /\ Len(stats_run.closes) - 1 > 1) =>
          AtMost(stats.var_99, stats.var_95)

C24_Witness ==
    /\ Computed(stats_run.server)
    /\ Len(stats_run.closes) - 1 > 1
    /\ Less(stats_run.server.var_99, stats_run.server.var_95)

(***************************************************************************)
(* C26: analyze_risk stores a record only after a successful computation:  *)
(* no document of volatility_metrics carries an error outcome, and no      *)
(* cache hit serves one.                                                   *)
(***************************************************************************)
C26_OnlySuccessStored ==
    /\ \A doc \in volatility_metrics : ~IsErrorDict(doc)
    /\ (last.op = "analyze_risk" /\ last.hit) => ~IsErrorDict(last.ret)

(***************************************************************************)
(* C27: analyze_volatility goes on to the direct calculation only after    *)
(* the analyze_risk call yielded no result (the post failed, the status    *)
(* was not 200, or the response was a JSON-RPC error); when the call       *)
(* yields a result, that result is returned unchanged, with no direct      *)
(* calculation and no upstream fetch by the agent.                         *)
(***************************************************************************)
YieldsNoResult(wire) == wire.status # 200 \/ "error" \in DOMAIN wire.body

Served == calls' = calls + 1

C28_ClassifiersAgree ==
    (classified.server # NotRun /\ classified.agent # NotRun) =>
       /\ Rank(classified.server.lower) = Rank(classified.agent.lower)
       /\ Rank(classified.server.higher) = Rank(classified.agent.higher)

(***************************************************************************)
(* C29: in _classify_risk_level each metric has a medium band (volatility  *)
(* in (0.2, 0.3], max drawdown from -0.2 to -0.1, VaR-95 from -0.03 to     *)
(* -0.02); with no high-risk indicator and at least two metrics in their   *)
(* medium bands the level is MEDIUM.                                       *)
(***************************************************************************)
HighIndicators(volatility) ==
    Count(<<volatility > 30, classified.max_drawdown < -20,
            classified.var_95 < -3>>)

InMediumBands(volatility) ==
    Count(<<20 < volatility /\ volatility <= 30,
            -20 <= classified.max_drawdown /\ classified.max_drawdown < -10,
            -3 <= classified.var_95 /\ classified.var_95 < -2>>)

C29_TwoMediumBandsGiveMedium ==
    classified.agent # NotRun =>
       /\ (HighIndicators(classified.lower) = 0
              /\ InMediumBands(classified.lower) >= 2)
             => classified.agent.lower = "MEDIUM"
       /\ (HighIndicators(classified.higher) = 0
              /\ InMediumBands(classified.higher) >= 2)
             => classified.agent.higher = "MEDIUM"

(***************************************************************************)
(* C30: _calculate_portfolio_volatility returns a number whenever at       *)
(* least two of the requested symbols have a resolvable return series,     *)
(* also when other requested symbols have none.                            *)
(***************************************************************************)
C30_VolatilityFromTwoSeries ==
    (portfolio.calculated # NotCalled /\ NumResolved >= 2)
       => portfolio.calculated # None

====
